---- MODULE Spec2Model ----
(***************************************************************************)
(* Model of go-hep's groot/rsql/rsqldrv driver (driver.go): the driver's   *)
(* registry of dataset connections (rootDriver.dbs / owns, driverConn.refs *)
(* and driverConn.stop, guarded by rootDriver.mu) and the row iterator     *)
(* driverRows.                                                             *)
(*                                                                         *)
(* Callers are goroutines.  A method that takes rootDriver.mu is two       *)
(* steps: the Lock() step and the body, which runs to its return and       *)
(* releases the mutex (defer Unlock).  A method that takes no lock and     *)
(* touches shared memory (Prepare) is a parse step and a store step.       *)
(* A Go panic is an outcome handed to the caller ("panic"), the deferred   *)
(* Unlock having run.                                                      *)
(***************************************************************************)
EXTENDS Integers, Sequences, FiniteSets, TLC

\* ---------------------------------------------------------------- bounds
\* number of driverConn objects that can be allocated
MaxConns == 2
\* largest refcount an entry is driven to
MaxRefs == 2
\* number of driverStmt objects that can be allocated
MaxStmts == 2

Threads == {1, 2}
Names == {"a"}
Conns == 1..MaxConns
Stmts == 1..MaxStmts
NoConn == 0
\* a driverConn that is not allocated has no file
NoFile == -1
\* the handles that exist outside the driver and can be adopted, and
\* riofs.File.Name() of each
ExtHandles == {0}
HandleName(h) == "a"
\* the riofs.File the driver opens for its k-th driverConn
Files == ExtHandles \cup Conns

VARIABLES
  mu,      \* rootDriver.mu: 0 when free, else the goroutine holding it
  dbs,     \* rootDriver.dbs: name -> driverConn (NoConn: no entry)
  owns,    \* rootDriver.owns: name -> "unset" | "true" | "false"
  nconn,   \* driverConn objects allocated so far
  cf,      \* driverConn.f: the connection's file (NoFile: not allocated)
  refs,    \* driverConn.refs
  stop,    \* driverConn.stop: the set of prepared statements
  nstmt,   \* driverStmt objects allocated so far
  files,   \* riofs.File: [name, open]
  pc,      \* per goroutine: the method it is inside
  arg,     \* per goroutine: the argument of that method
  ret,     \* the last return of a method: [op, out, closed], closed the
           \* riofs.File the method called Close on (NoFile: none)
  held,    \* per connection: connections returned to callers on which no
           \* Close has returned nil yet
  over,    \* per connection: a Close call was made beyond the ones handed out
  fatal,   \* the runtime has aborted the process (concurrent map access)
  parsed,  \* per goroutine inside Prepare: the statement Parse returned
  stmtq,   \* per driverStmt: its stmt field (NoStmt: not allocated)
  tree,    \* the rtree.Tree "t" of the file: its entries, in storage order
  scanner, \* the rtree.TreeScanner: [st, vars, pos]
  rows,    \* the driverRows returned by Query (NoRows: none)
  qret,    \* the last return of Query or of a driverRows method
  query,   \* the statement of the last Query call (NoStmt: none)
  log,     \* what the Next calls returned before EOF: [idx, out, dest] each,
           \* idx the entry the scanner was on
  count    \* the calls so far, counted up to MaxRepeat: [eof], the Next
           \* calls that returned EOF

mgr == <<mu, dbs, owns, nconn, cf, refs, stop, nstmt, files>>
thr == <<pc, arg, ret>>
hist == <<held, over>>
prep == <<parsed, stmtq>>
dvars == <<mu, dbs, owns, nconn, cf, refs, stop, nstmt, files,
           pc, arg, ret, held, over, fatal, parsed, stmtq>>
qvars == <<tree, scanner, rows, qret, query, log, count>>
vars == <<dvars, qvars>>

Unopened == [name |-> "", open |-> FALSE]
NoStmt == [kind |-> "none"]

\* no query was made: no scanner, no driverRows
NoScanner == [st |-> "none", vars |-> <<>>, pos |-> 0]
NoRows == [k |-> "nil"]
NoReturn == [op |-> "none", out |-> "none", dest |-> <<>>]
InitQuery ==
  /\ scanner = NoScanner
  /\ rows = NoRows
  /\ qret = NoReturn
  /\ query = NoStmt
  /\ log = <<>>
  /\ count = [eof |-> 0]

Init ==
  /\ tree = <<>>
  /\ InitQuery
  /\ mu = 0
  /\ dbs = [n \in Names |-> NoConn]
  /\ owns = [n \in Names |-> "unset"]
  /\ nconn = 0
  /\ cf = [c \in Conns |-> NoFile]
  /\ refs = [c \in Conns |-> 0]
  /\ stop = [c \in Conns |-> {}]
  /\ nstmt = 0
  /\ files = [f \in Files |->
               IF f \in ExtHandles
               THEN [name |-> HandleName(f), open |-> TRUE]
               ELSE Unopened]
  /\ pc = [t \in Threads |-> "idle"]
  /\ arg = [t \in Threads |-> 0]
  /\ ret = [op |-> "none", out |-> "none", closed |-> NoFile]
  /\ held = [c \in Conns |-> 0]
  /\ over = [c \in Conns |-> FALSE]
  /\ fatal = FALSE
  /\ parsed = [t \in Threads |-> NoStmt]
  /\ stmtq = [s \in Stmts |-> NoStmt]

\* ------------------------------------------------------------- helpers
\* conn.f.Name()
ConnName(c) == files[cf[c]].name

\* the goroutines inside a method of connection c
Inside(c) == {u \in Threads : pc[u] \in {"Prepare", "Close"} /\ arg[u] = c}

\* database/sql drives a connection from one goroutine at a time: a
\* goroutine can enter a method of c when a connection on c is handed out
\* that no goroutine is using
Usable(c) == cf[c] # NoFile /\ Cardinality(Inside(c)) < held[c]

ReturnClosed(t, op, out, f) ==
  /\ pc' = [pc EXCEPT ![t] = "idle"]
  /\ arg' = [arg EXCEPT ![t] = 0]
  /\ ret' = [op |-> op, out |-> out, closed |-> f]

Return(t, op, out) == ReturnClosed(t, op, out, NoFile)

\* drv.mu.Lock() at the head of open, connect and Close
Lock(t, op, a) ==
  /\ ~fatal
  /\ UNCHANGED <<qvars, prep>>
  /\ pc[t] = "idle"
  /\ mu = 0
  /\ mu' = t
  /\ pc' = [pc EXCEPT ![t] = op]
  /\ arg' = [arg EXCEPT ![t] = a]
  /\ UNCHANGED <<dbs, owns, nconn, cf, refs, stop, nstmt, files,
                 ret, held, over, fatal>>

\* (mutation of InitRefs: the new driverConn is built with refs: 1)
InitRefs_One == 0 + 1

\* a new driverConn is built with refs: 0
InitRefs == 0

\* drv.owns[fname] = true in open, drv.owns[f.Name()] = false in connect
OpenedOwns == "true"
\* (mutation of AdoptedOwns: connect marks the adopted file as owned)
AdoptedOwns_True == "true"
AdoptedOwns == "false"

\* conn.refs++ on the driverConn found or built (r: its refs before), and
\* the connection handed to the caller
Ref(c, r) ==
  /\ refs' = [refs EXCEPT ![c] = r + 1]
  /\ held' = [held EXCEPT ![c] = @ + 1]

\* ----------------------------------------------------- rootDriver.open
OpenLock(t, n) ==
  /\ \/ dbs[n] = NoConn /\ nconn < MaxConns
     \/ dbs[n] # NoConn /\ refs[dbs[n]] < MaxRefs
  /\ Lock(t, "open", n)

\* (mutation of OpenFailed: the name is marked as owned before the error
\* of riofs.Open is looked at)
OpenFailed_Marked(n) == [owns EXCEPT ![n] = OpenedOwns]

\* if err != nil { return nil, errors.Wrap(err, ...) }: drv.owns after the
\* return
OpenFailed(n) == owns

OpenBody(t) ==
  /\ ~fatal
  /\ UNCHANGED <<qvars, prep>>
  /\ pc[t] = "open"
  /\ mu = t
  /\ mu' = 0
  /\ LET n == arg[t] IN
     IF dbs[n] # NoConn
     THEN \* the entry exists: conn.refs++
          /\ Ref(dbs[n], refs[dbs[n]])
          /\ Return(t, "open", "ok")
          /\ UNCHANGED <<dbs, owns, nconn, cf, stop, nstmt, files,
                         over, fatal>>
     ELSE \* riofs.Open(fname)
          /\ \/ \* riofs.Open fails
                /\ Return(t, "open", "err")
                /\ owns' = OpenFailed(n)
                /\ UNCHANGED <<dbs, nconn, cf, refs, stop, nstmt, files,
                               held, over, fatal>>
             \/ \* riofs.Open succeeds: a new driverConn with refs 0, then ++
                LET c == nconn + 1
                    f == c
                IN /\ nconn' = c
                   /\ cf' = [cf EXCEPT ![c] = f]
                   /\ files' = [files EXCEPT ![f] =
                                  [name |-> n, open |-> TRUE]]
                   /\ dbs' = [dbs EXCEPT ![n] = c]
                   /\ owns' = [owns EXCEPT ![n] = OpenedOwns]
                   /\ Ref(c, InitRefs)
                   /\ Return(t, "open", "ok")
                   /\ UNCHANGED <<stop, nstmt, over, fatal>>

\* -------------------------------------------------- rootDriver.connect
ConnectLock(t, h) ==
  /\ LET n == HandleName(h) IN
     \/ dbs[n] = NoConn /\ nconn < MaxConns
     \/ dbs[n] # NoConn /\ refs[dbs[n]] < MaxRefs
  /\ Lock(t, "connect", h)

ConnectBody(t) ==
  /\ ~fatal
  /\ UNCHANGED <<qvars, prep>>
  /\ pc[t] = "connect"
  /\ mu = t
  /\ mu' = 0
  /\ LET h == arg[t]
         n == files[h].name
     IN IF dbs[n] # NoConn
        THEN /\ Ref(dbs[n], refs[dbs[n]])
             /\ UNCHANGED <<dbs, owns, nconn, cf>>
        ELSE LET c == nconn + 1
             IN /\ nconn' = c
                /\ cf' = [cf EXCEPT ![c] = h]
                /\ dbs' = [dbs EXCEPT ![n] = c]
                /\ owns' = [owns EXCEPT ![n] = AdoptedOwns]
                /\ Ref(c, InitRefs)
  /\ Return(t, "connect", "ok")
  /\ UNCHANGED <<stop, nstmt, files, over, fatal>>

\* ------------------------------------------ the trees and the statements
\* number of entries of the tree
MaxRows == 3
\* number of calls counted of a method whose call can be repeated for ever
MaxRepeat == 2
Counted(n) == IF n < MaxRepeat THEN n + 1 ELSE n

\* ---------------------------------------------------------------- values
\* Go values, tagged with their dynamic type; strings are numbered
IntV(n) == [t |-> "int", v |-> n]
StrV(k) == [t |-> "string", v |-> k]
BoolV(b) == [t |-> "bool", v |-> IF b THEN 1 ELSE 0]
BytesV(k) == [t |-> "[]byte", v |-> k]
TupleV(vs) == [t |-> "[]interface{}", v |-> vs]
ReflectV(x) == [t |-> "reflect.Value", v |-> x.v, of |-> x.t]
ErrV == [t |-> "error", v |-> 0]
NilV == [t |-> "nil", v |-> 0]

\* ------------------------------------------------------------- the tree
\* tree.Branches(), in schema order, and the entries a tree can hold
Branches == <<"x", "y">>
BranchNames == {Branches[i] : i \in 1..Len(Branches)}
Entries == {[x |-> IntV(1), y |-> StrV(1)],
            [x |-> IntV(2), y |-> StrV(1)],
            [x |-> IntV(2), y |-> StrV(2)]}
Trees == UNION {[1..n -> Entries] : n \in 0..MaxRows}

\* ------------------------------------------------ the sqlparser syntax
ColName(n) == [k |-> "ColName", name |-> n]
SQLVal(v) == [k |-> "SQLVal", val |-> v]
BoolVal(b) == [k |-> "BoolVal", val |-> BoolV(b)]
ComparisonExpr(op, l, r) == [k |-> "ComparisonExpr", op |-> op, l |-> l, r |-> r]
BinaryExpr(op, l, r) == [k |-> "BinaryExpr", op |-> op, l |-> l, r |-> r]
AndExpr(l, r) == [k |-> "AndExpr", l |-> l, r |-> r]
OrExpr(l, r) == [k |-> "OrExpr", l |-> l, r |-> r]
NotExpr(e) == [k |-> "NotExpr", e |-> e]
ParenExpr(e) == [k |-> "ParenExpr", e |-> e]
ValTuple(es) == [k |-> "ValTuple", es |-> es]
StarExpr == [k |-> "StarExpr"]
NoWhere == [k |-> "nil"]
\* a Select of one select expression: a StarExpr, or an AliasedExpr of
\* expression e with alias as ("": no alias)
SelectAs(e, as, from, where) ==
  [kind |-> "Select", expr |-> e, as |-> as, from |-> from, where |-> where]
Select(e, from, where) == SelectAs(e, "", from, where)

\* the statements given to Query: what sqlparser.Parse returns for the text
Statements == {
  \* SELECT x FROM t
  Select(ColName("x"), <<"t">>, NoWhere),
  \* SELECT 1 FROM t
  Select(SQLVal(IntV(1)), <<"t">>, NoWhere),
  \* SELECT x FROM t WHERE x > 1
  Select(ColName("x"), <<"t">>,
         ComparisonExpr(">", ColName("x"), SQLVal(IntV(1)))),
  \* SELECT y FROM t WHERE x = 2 AND y = 's1'
  Select(ColName("y"), <<"t">>,
         AndExpr(ComparisonExpr("=", ColName("x"), SQLVal(IntV(2))),
                 ComparisonExpr("=", ColName("y"), SQLVal(StrV(1))))),
  \* SELECT (x, y) FROM t WHERE (x < 2) OR y != 's1'
  Select(ValTuple(<<ColName("x"), ColName("y")>>), <<"t">>,
         OrExpr(ParenExpr(ComparisonExpr("<", ColName("x"), SQLVal(IntV(2)))),
                ComparisonExpr("!=", ColName("y"), SQLVal(StrV(1))))),
  \* SELECT * FROM t WHERE y = 's2'
  Select(StarExpr, <<"t">>,
         ComparisonExpr("=", ColName("y"), SQLVal(StrV(2)))),
  \* SELECT x + 1 FROM t WHERE false
  Select(BinaryExpr("+", ColName("x"), SQLVal(IntV(1))), <<"t">>,
         BoolVal(FALSE)),
  \* SELECT x AS y FROM t
  SelectAs(ColName("x"), "y", <<"t">>, NoWhere),
  \* SELECT y AS n FROM t
  SelectAs(ColName("y"), "n", <<"t">>, NoWhere),
  \* SELECT x > 1 FROM t
  Select(ComparisonExpr(">", ColName("x"), SQLVal(IntV(1))), <<"t">>, NoWhere),
  \* SELECT x + y FROM t WHERE x > 1
  Select(BinaryExpr("+", ColName("x"), ColName("y")), <<"t">>,
         ComparisonExpr(">", ColName("x"), SQLVal(IntV(1)))),
  \* SELECT x FROM t WHERE x > y
  Select(ColName("x"), <<"t">>,
         ComparisonExpr(">", ColName("x"), ColName("y"))),
  \* SELECT y FROM t WHERE x
  Select(ColName("y"), <<"t">>, ColName("x")),
  \* SELECT x FROM t WHERE NOT x > 1
  Select(ColName("x"), <<"t">>,
         NotExpr(ComparisonExpr(">", ColName("x"), SQLVal(IntV(1))))),
  \* SELECT x FROM t WHERE z > 1
  Select(ColName("x"), <<"t">>,
         ComparisonExpr(">", ColName("z"), SQLVal(IntV(1)))),
  \* SELECT x FROM t, u
  Select(ColName("x"), <<"t", "u">>, NoWhere),
  \* SELECT x FROM u
  Select(ColName("x"), <<"u">>, NoWhere),
  \* INSERT INTO t VALUES (1)
  [kind |-> "Insert"],
  \* text that does not parse
  [kind |-> "ParseError"] }

\* the statements of the queries made while connections are opened and
\* closed: text that does not parse, SELECT x FROM t WHERE x > 1 and
\* SELECT (x, y) FROM t
Churned == {
  [kind |-> "ParseError"],
  Select(ColName("x"), <<"t">>,
         ComparisonExpr(">", ColName("x"), SQLVal(IntV(1)))),
  Select(ValTuple(<<ColName("x"), ColName("y")>>), <<"t">>, NoWhere) }

\* ------------------------------------------------ driverConn.Prepare
\* sqlparser.Parse(query): the statement text parses or it does not
Parse(stmt) == IF stmt.kind = "ParseError" THEN "err" ELSE "ok"

\* the statements given to Prepare where the connections are followed: one
\* that parses and one that does not
Prepared == {Select(ColName("x"), <<"t">>, NoWhere), [kind |-> "ParseError"]}

\* the goroutines that are inside a method that touches conn.stop of c:
\* Prepare stores into the map, the last Close ranges over it
Writes(t, c) == pc[t] = "Prepare" /\ arg[t] = c
Reads(t, c) == pc[t] = "Close" /\ arg[t] = c /\ ~(refs[c] > 1)
Racing(t, c) ==
  \E u \in Threads \ {t} : Writes(u, c) \/ (Writes(t, c) /\ Reads(u, c))

\* the goroutines between the parse and the store of a Prepare: each of them
\* allocates one driverStmt when it stores
Preparing == {u \in Threads : pc[u] = "Prepare"}

PrepareParse(t, c, stmt) ==
  /\ ~fatal
  /\ UNCHANGED qvars
  /\ pc[t] = "idle"
  /\ Usable(c)
  /\ IF Parse(stmt) = "err"
     THEN /\ Return(t, "Prepare", "err")
          /\ parsed' = parsed
     ELSE /\ nstmt + Cardinality(Preparing) < MaxStmts
          /\ pc' = [pc EXCEPT ![t] = "Prepare"]
          /\ arg' = [arg EXCEPT ![t] = c]
          /\ ret' = ret
          /\ parsed' = [parsed EXCEPT ![t] = stmt]
  /\ UNCHANGED <<mgr, hist, fatal, stmtq>>

\* s := &driverStmt{conn: conn, stmt: stmt}
\* conn.stop[s] = struct{}{}, with no lock held
PrepareStore(t) ==
  /\ ~fatal
  /\ UNCHANGED qvars
  /\ pc[t] = "Prepare"
  /\ LET c == arg[t]
         s == nstmt + 1
         allocated == /\ nstmt' = s
                      /\ stmtq' = [stmtq EXCEPT ![s] = parsed[t]]
                      /\ parsed' = [parsed EXCEPT ![t] = NoStmt]
     IN \/ /\ allocated
           /\ stop' = [stop EXCEPT ![c] = @ \cup {s}]
           /\ Return(t, "Prepare", "ok")
           /\ fatal' = fatal
        \/ \* unsynchronised map write against another map access:
           \* the store is lost
           /\ \E u \in Threads \ {t} : Writes(u, c)
           /\ allocated
           /\ stop' = stop
           /\ Return(t, "Prepare", "ok")
           /\ fatal' = fatal
        \/ \* or the runtime aborts ("concurrent map writes")
           /\ Racing(t, c)
           /\ fatal' = TRUE
           /\ UNCHANGED <<nstmt, stop, thr, prep>>
  /\ UNCHANGED <<mu, dbs, owns, nconn, cf, refs, files, hist>>

\* --------------------------------------------------- driverStmt.Close
StmtClose(s) == "panic"

\* the loop over conn.stop in driverConn.Close: the first statement whose
\* Close does not return nil ends it
CloseStmts(c) ==
  IF \E s \in stop[c] : StmtClose(s) = "panic" THEN "panic"
  ELSE IF \E s \in stop[c] : StmtClose(s) = "err" THEN "err"
  ELSE "ok"

\* --------------------------------------------------- driverConn.Close
\* riofs.File.Close(): succeeds or returns an error
FileCloseResults == {"ok", "err"}

\* (mutations of StillShared: the test reads refs >= 1, refs > 2, or the
\* decrement is not guarded)
StillShared_OffByOne(c) == refs[c] >= 1
StillShared_Gt2(c) == refs[c] > 2
StillShared_Unguarded(c) == refs[c] = refs[c]

\* if conn.refs > 1 { conn.refs--; return nil }
StillShared(c) == refs[c] > 1

\* conn.drv.owns[conn.f.Name()]
OwnsFile(c) == owns[ConnName(c)] = "true"

\* (mutation of DeleteEntry: the entry is left in the registry)
DeleteEntry_Never(c) == dbs

\* if conn.refs == 1 { delete(conn.drv.dbs, conn.f.Name()) }
DeleteEntry(c) ==
  IF refs[c] = 1 THEN [dbs EXCEPT ![ConnName(c)] = NoConn] ELSE dbs

CloseLock(t, c) ==
  /\ cf[c] # NoFile
  /\ Lock(t, "Close", c)

\* the Close call of t is on a connection that was handed out and is not
\* closed yet (the other goroutines inside c use one each)
Spare(t, c) == Cardinality(Inside(c) \ {t}) < held[c]

\* the caller's Close call on c returns out, having called Close on file f
\* (NoFile: on none): a connection is closed once its Close returns nil
Closed(t, c, out, f) ==
  /\ held' = [held EXCEPT ![c] =
                IF Spare(t, c) /\ out = "ok" THEN @ - 1 ELSE @]
  /\ over' = [over EXCEPT ![c] = @ \/ ~Spare(t, c)]
  /\ ReturnClosed(t, "Close", out, f)

CloseBody(t) ==
  /\ ~fatal
  /\ UNCHANGED <<qvars, prep>>
  /\ pc[t] = "Close"
  /\ mu = t
  /\ LET c == arg[t] IN
     \/ /\ mu' = 0
        /\ IF StillShared(c)
           THEN /\ refs' = [refs EXCEPT ![c] = @ - 1]
                /\ Closed(t, c, "ok", NoFile)
                /\ UNCHANGED <<dbs, files>>
           ELSE IF CloseStmts(c) # "ok"
           THEN /\ Closed(t, c, CloseStmts(c), NoFile)
                /\ UNCHANGED <<dbs, refs, files>>
           ELSE IF OwnsFile(c)
           THEN \E r \in FileCloseResults :
                  /\ files' = [files EXCEPT ![cf[c]].open =
                                 IF r = "ok" THEN FALSE ELSE @]
                  /\ IF r = "err"
                     THEN /\ Closed(t, c, "err", cf[c])
                          /\ UNCHANGED <<dbs, refs>>
                     ELSE /\ dbs' = DeleteEntry(c)
                          /\ refs' = [refs EXCEPT ![c] = 0]
                          /\ Closed(t, c, "ok", cf[c])
           ELSE /\ dbs' = DeleteEntry(c)
                /\ refs' = [refs EXCEPT ![c] = 0]
                /\ Closed(t, c, "ok", NoFile)
                /\ files' = files
        /\ fatal' = fatal
     \/ \* the range over conn.stop runs against an unsynchronised store:
        \* the runtime aborts ("concurrent map iteration and map write")
        /\ Reads(t, c)
        /\ \E u \in Threads \ {t} : Writes(u, c)
        /\ fatal' = TRUE
        /\ UNCHANGED <<mu, dbs, refs, files, thr, hist>>
  /\ UNCHANGED <<owns, nconn, cf, stop, nstmt>>

\* ------------------------- driverConn.Begin, Commit, Rollback and Exec
\* (mutation of NotImplemented: the method returns normally)
NotImplemented_Ok == "ok"

\* panic("conn-begin: not implemented") and its siblings
NotImplemented == "panic"

Tx(t, c, op) ==
  /\ ~fatal
  /\ UNCHANGED <<qvars, prep>>
  /\ pc[t] = "idle"
  /\ Usable(c)
  /\ Return(t, op, NotImplemented)
  /\ UNCHANGED <<mgr, hist, fatal>>

Begin(t, c) == Tx(t, c, "Begin")
Commit(t, c) == Tx(t, c, "Commit")
Rollback(t, c) == Tx(t, c, "Rollback")

\* Exec: sqlparser.Parse, then conn.exec, which panics
Exec(t, c) ==
  /\ ~fatal
  /\ UNCHANGED <<qvars, prep>>
  /\ pc[t] = "idle"
  /\ Usable(c)
  /\ \E stmt \in Prepared :
       Return(t, "Exec", IF Parse(stmt) = "err" THEN "err" ELSE NotImplemented)
  /\ UNCHANGED <<mgr, hist, fatal>>

Next ==
  \/ \E t \in Threads, n \in Names : OpenLock(t, n)
  \/ \E t \in Threads : OpenBody(t)
  \/ \E t \in Threads, h \in ExtHandles : ConnectLock(t, h)
  \/ \E t \in Threads : ConnectBody(t)
  \/ \E t \in Threads, c \in Conns, stmt \in Prepared : PrepareParse(t, c, stmt)
  \/ \E t \in Threads : PrepareStore(t)
  \/ \E t \in Threads, c \in Conns : CloseLock(t, c)
  \/ \E t \in Threads : CloseBody(t)
  \/ \E t \in Threads, c \in Conns : Begin(t, c)
  \/ \E t \in Threads, c \in Conns : Commit(t, c)
  \/ \E t \in Threads, c \in Conns : Rollback(t, c)
  \/ \E t \in Threads, c \in Conns : Exec(t, c)

Spec == Init /\ [][Next]_vars

\* ======================================================================
\* Queries: driverConn.Query, newDriverRows, driverRows
\* ======================================================================
\* ------------------------------------------------------- sqlparser.Walk
\* the nodes Walk descends into below node e
SubNodes(e) ==
  CASE e.k \in {"ComparisonExpr", "BinaryExpr", "AndExpr", "OrExpr"} ->
         <<e.l, e.r>>
    [] e.k \in {"ParenExpr", "NotExpr"} -> <<e.e>>
    [] e.k = "ValTuple" -> e.es
    [] OTHER -> <<>>

RECURSIVE Flatten(_)
Flatten(ss) == IF ss = <<>> THEN <<>> ELSE Head(ss) \o Flatten(Tail(ss))

\* markBranch: the names in order of first occurrence, "" left out
RECURSIVE Dedup(_)
Dedup(ns) ==
  IF ns = <<>> THEN <<>>
  ELSE LET n == ns[Len(ns)]
           front == Dedup(SubSeq(ns, 1, Len(ns) - 1))
       IN IF n = "" \/ \E i \in 1..Len(front) : front[i] = n
          THEN front
          ELSE Append(front, n)

\* collectCols of extractDepsFromSelect, walked over node e
RECURSIVE CollectDeps(_)
CollectDeps(e) ==
  CASE e.k = "StarExpr" -> Branches
    [] e.k = "ColName" -> <<e.name>>
    [] OTHER ->
         LET sub == SubNodes(e)
         IN Flatten([i \in 1..Len(sub) |-> CollectDeps(sub[i])])

\* extractDepsFromSelect: the branches to read, or an error when one of
\* them is not a branch of the tree
extractDepsFromSelect(stmt) ==
  LET \* Walk of the select expression: an AliasedExpr has the children
      \* Expr and As, and As is a ColIdent
      selected == IF stmt.expr.k = "StarExpr" THEN CollectDeps(stmt.expr)
                  ELSE Append(CollectDeps(stmt.expr), stmt.as)
      nodes == IF stmt.where.k = "nil" THEN <<selected>>
               ELSE <<selected, CollectDeps(stmt.where)>>
      cols == Dedup(Flatten(nodes))
  IN IF \E i \in 1..Len(cols) : cols[i] \notin BranchNames
     THEN [err |-> TRUE, vars |-> <<>>]
     ELSE [err |-> FALSE, vars |-> cols]

\* collect of extractColsFromSelect, walked over node e
RECURSIVE CollectCols(_)
CollectCols(e) ==
  CASE e.k = "ColName" -> <<e.name>>
    [] e.k \in {"ParenExpr", "ValTuple"} ->
         LET sub == SubNodes(e)
         IN Flatten([i \in 1..Len(sub) |-> CollectCols(sub[i])])
    [] e.k \in {"BinaryExpr", "SQLVal"} -> <<"">>
    [] OTHER -> <<>>

extractColsFromSelect(stmt) ==
  IF stmt.expr.k = "StarExpr" THEN Branches ELSE CollectCols(stmt.expr)

\* ------------------------------------------------- compiled expressions
CompileError == [k |-> "error"]
IsError(ex) == ex.k = "error"

\* operatorFrom: the operators of comparisons and of binary expressions
ComparisonOps == {"=", "!=", "<", "<=", ">", ">="}
ArithmeticOps == {"+", "-", "*"}
operatorFrom(op) ==
  IF op \in ComparisonOps \cup ArithmeticOps THEN op ELSE "opInvalid"

binExpr(op, l, r) == [k |-> "binExpr", op |-> op, l |-> l, r |-> r]

RECURSIVE newExprFrom(_)
newExprFrom(e) ==
  CASE e.k = "ComparisonExpr" ->
         IF operatorFrom(e.op) = "opInvalid" THEN CompileError
         ELSE LET l == newExprFrom(e.l) IN
              IF IsError(l) THEN CompileError
              ELSE LET r == newExprFrom(e.r) IN
                   IF IsError(r) THEN CompileError
                   ELSE binExpr(operatorFrom(e.op), l, r)
    [] e.k = "ParenExpr" -> newExprFrom(e.e)
    [] e.k \in {"AndExpr", "OrExpr"} ->
         LET l == newExprFrom(e.l) IN
         IF IsError(l) THEN CompileError
         ELSE LET r == newExprFrom(e.r) IN
              IF IsError(r) THEN CompileError
              ELSE binExpr(IF e.k = "AndExpr" THEN "&&" ELSE "||", l, r)
    [] e.k = "ColName" -> [k |-> "identExpr", name |-> e.name]
    [] e.k \in {"SQLVal", "BoolVal"} -> [k |-> "valueExpr", val |-> e.val]
    [] e.k = "BinaryExpr" ->
         LET l == newExprFrom(e.l) IN
         IF IsError(l) THEN CompileError
         ELSE LET r == newExprFrom(e.r) IN
              IF IsError(r) THEN CompileError
              ELSE IF operatorFrom(e.op) = "opInvalid" THEN CompileError
              ELSE binExpr(operatorFrom(e.op), l, r)
    [] e.k = "ValTuple" ->
         LET vs == [i \in 1..Len(e.es) |-> newExprFrom(e.es[i])] IN
         IF \E i \in 1..Len(vs) : IsError(vs[i]) THEN CompileError
         ELSE [k |-> "tupleExpr", exprs |-> vs]
    [] OTHER -> CompileError

\* binExpr.eval on two values: a comparison of two numbers or of two
\* strings, a logical operator on two booleans, arithmetic on two numbers
Compare(op, a, b) ==
  CASE op = "=" -> a = b
    [] op = "!=" -> a # b
    [] op = "<" -> a < b
    [] op = "<=" -> a <= b
    [] op = ">" -> a > b
    [] op = ">=" -> a >= b

Apply(op, l, r) ==
  IF op \in ComparisonOps
  THEN IF l.t = r.t /\ l.t \in {"int", "string"}
       THEN BoolV(Compare(op, l.v, r.v))
       ELSE ErrV
  ELSE IF op \in {"&&", "||"}
  THEN IF l.t = "bool" /\ r.t = "bool"
       THEN BoolV(IF op = "&&" THEN l.v = 1 /\ r.v = 1
                  ELSE l.v = 1 \/ r.v = 1)
       ELSE ErrV
  ELSE IF l.t = "int" /\ r.t = "int"
       THEN IntV(CASE op = "+" -> l.v + r.v
                   [] op = "-" -> l.v - r.v
                   [] op = "*" -> l.v * r.v)
       ELSE ErrV

\* expression.eval(ectx, vctx)
RECURSIVE Eval(_, _)
Eval(ex, vctx) ==
  CASE ex.k = "identExpr" -> vctx[ex.name]
    [] ex.k = "valueExpr" -> ex.val
    [] ex.k = "binExpr" ->
         LET l == Eval(ex.l, vctx) IN
         IF l.t = "error" THEN ErrV
         ELSE LET r == Eval(ex.r, vctx) IN
              IF r.t = "error" THEN ErrV ELSE Apply(ex.op, l, r)
    [] ex.k = "tupleExpr" ->
         LET vs == [i \in 1..Len(ex.exprs) |-> Eval(ex.exprs[i], vctx)] IN
         IF \E i \in 1..Len(vs) : vs[i].t = "error" THEN ErrV
         ELSE TupleV(vs)

\* ------------------------------------------------------ newDriverRows
\* the result of newDriverRows(conn, stmt, args): the driverRows or an
\* error, and the scanner it has opened
\* rtree.NewTreeScannerVars(tree, vars...) belongs to package rtree, outside
\* this package: all the driver relies on is that it returns a scanner or an
\* error. Both outcomes are kept, whatever the variables
NewTreeScannerVars(vs) == {"ok", "err"}

\* built: what rtree.NewTreeScannerVars returned
newDriverRows(stmt, built) ==
  LET deps == extractDepsFromSelect(stmt)
      cols == extractColsFromSelect(stmt)
      opened == [st |-> "open", vars |-> deps.vars, pos |-> 0]
      eval == IF stmt.expr.k = "StarExpr"
              THEN newExprFrom(ValTuple([i \in 1..Len(cols) |->
                                           ColName(cols[i])]))
              ELSE newExprFrom(stmt.expr)
      filter == IF stmt.where.k = "nil" THEN NoWhere
                ELSE newExprFrom(stmt.where)
  IN IF Len(stmt.from) # 1 THEN [out |-> "err", rows |-> NoRows, sc |-> NoScanner]
     ELSE IF stmt.from[1] # "t" THEN [out |-> "err", rows |-> NoRows, sc |-> NoScanner]
     ELSE IF deps.err THEN [out |-> "err", rows |-> NoRows, sc |-> NoScanner]
     ELSE IF built = "err" THEN [out |-> "err", rows |-> NoRows, sc |-> NoScanner]
     ELSE IF IsError(eval) THEN [out |-> "err", rows |-> NoRows, sc |-> opened]
     ELSE IF IsError(filter) THEN [out |-> "err", rows |-> NoRows, sc |-> opened]
     ELSE [out |-> "ok",
           rows |-> [k |-> "driverRows", cols |-> cols, deps |-> deps.vars,
                     eval |-> eval, filter |-> filter],
           sc |-> opened]

\* (mutation of Enters: the method takes drv.mu before anything else)
Enters_Locked(t) == ~fatal /\ pc[t] = "idle" /\ mu = 0

\* goroutine t enters Query or a method of driverRows: none of them takes
\* drv.mu
Enters(t) == ~fatal /\ pc[t] = "idle"

\* driverConn.Query on connection c
Query(t, c, stmt) ==
  /\ Enters(t)
  /\ Usable(c)
  /\ files[cf[c]].open
  /\ rows = NoRows /\ scanner = NoScanner
  /\ IF Parse(stmt) = "err"
     THEN /\ qret' = [op |-> "Query", out |-> "err", dest |-> <<>>]
          /\ UNCHANGED <<scanner, rows>>
     ELSE IF stmt.kind # "Select"
     THEN /\ qret' = [op |-> "Query", out |-> "panic", dest |-> <<>>]
          /\ UNCHANGED <<scanner, rows>>
     ELSE \E built \in NewTreeScannerVars(extractDepsFromSelect(stmt).vars) :
            LET r == newDriverRows(stmt, built) IN
            /\ qret' = [op |-> "Query", out |-> r.out, dest |-> <<>>]
            /\ rows' = r.rows
            /\ scanner' = r.sc
  /\ query' = stmt
  /\ UNCHANGED <<dvars, tree, log, count>>

\* ---------------------------------------------------- driverRows.Next
\* vctx[r.deps[i]]: the values of the entry the scanner is on
Vctx(i) == [n \in {rows.deps[j] : j \in 1..Len(rows.deps)} |-> tree[i][n]]

\* the conversion of the projected value into dest, of len(r.cols) slots
Convert(vs) ==
  LET n == Len(rows.cols)
      blank == [j \in 1..n |-> NilV]
  IN IF vs.t = "[]interface{}"
     THEN IF Len(vs.v) > n
          THEN [out |-> "panic",
                dest |-> [j \in 1..n |->
                            IF vs.v[j].t = "string" THEN BytesV(vs.v[j].v)
                            ELSE ReflectV(vs.v[j])]]
          ELSE [out |-> "row",
                dest |-> [j \in 1..n |->
                            IF j > Len(vs.v) THEN NilV
                            ELSE IF vs.v[j].t = "string"
                            THEN BytesV(vs.v[j].v)
                            ELSE ReflectV(vs.v[j])]]
     ELSE IF n = 0 THEN [out |-> "panic", dest |-> blank]
     ELSE [out |-> "row",
           dest |-> [blank EXCEPT ![1] =
                       IF vs.t = "string" THEN BytesV(vs.v) ELSE vs]]

\* r.eval.eval and the conversion, on entry i
Project(i) ==
  LET vs == Eval(rows.eval, Vctx(i)) IN
  IF vs.t = "error"
  THEN [pos |-> i, out |-> "err", idx |-> i, dest |-> <<>>]
  ELSE [pos |-> i, out |-> Convert(vs).out, idx |-> i,
        dest |-> Convert(vs).dest]

\* (mutation of Rejected: the test is inverted)
Rejected_Inverted(ok) == ok.v = 1

\* if !ok.(bool) { return r.Next(dest) }
Rejected(ok) == ok.v = 0

\* (mutation of EndOfRows: the end of the scan is returned as an error)
EndOfRows_Error == "err"

\* if !r.cursor.Next() { return io.EOF }
EndOfRows == "EOF"

\* Next from scanner position p (entries consumed); failAt is the entry on
\* which cursor.Scan fails (0: none)
RECURSIVE NextFrom(_, _)
NextFrom(p, failAt) ==
  IF p >= Len(tree)
  THEN [pos |-> p, out |-> EndOfRows, idx |-> 0, dest |-> <<>>]
  ELSE IF p + 1 = failAt
  THEN [pos |-> p + 1, out |-> "err", idx |-> p + 1, dest |-> <<>>]
  ELSE IF rows.filter.k = "nil" THEN Project(p + 1)
  ELSE LET ok == Eval(rows.filter, Vctx(p + 1)) IN
       IF ok.t = "error"
       THEN [pos |-> p + 1, out |-> "err", idx |-> p + 1, dest |-> <<>>]
       ELSE IF ok.t # "bool"
       THEN [pos |-> p + 1, out |-> "panic", idx |-> p + 1, dest |-> <<>>]
       ELSE IF Rejected(ok) THEN NextFrom(p + 1, failAt)
       ELSE Project(p + 1)

RowsNext(t) ==
  /\ Enters(t)
  /\ rows # NoRows
  /\ scanner.st = "open"
  /\ \E failAt \in {0} \cup (scanner.pos + 1..Len(tree)) :
       LET r == NextFrom(scanner.pos, failAt) IN
       /\ scanner' = [scanner EXCEPT !.pos = r.pos]
       /\ qret' = [op |-> "Next", out |-> r.out, dest |-> r.dest]
       /\ log' = IF r.idx = 0 THEN log
                 ELSE Append(log, [idx |-> r.idx, out |-> r.out,
                                   dest |-> r.dest])
       /\ count' = IF r.idx = 0
                   THEN [count EXCEPT !.eof = Counted(@)]
                   ELSE count
  /\ UNCHANGED <<dvars, tree, rows, query>>

\* TreeScanner.Close belongs to package rtree, outside this package: all
\* the driver relies on is its signature, Close() error. Every outcome that
\* signature allows is kept: it returns nil or an error, and the scanner is
\* released or, when an error is returned, left as it was
ScannerClose(sc) ==
  {[out |-> "ok", sc |-> [sc EXCEPT !.st = "closed"]],
   [out |-> "err", sc |-> [sc EXCEPT !.st = "closed"]],
   [out |-> "err", sc |-> sc]}

\* return r.cursor.Close()
CursorClose(sc) == ScannerClose(sc)

\* driverRows.Close
RowsClose(t) ==
  /\ Enters(t)
  /\ rows # NoRows
  /\ \E r \in CursorClose(scanner) :
       /\ scanner' = r.sc
       /\ qret' = [op |-> "Close", out |-> r.out, dest |-> <<>>]
  /\ UNCHANGED <<dvars, tree, rows, query, log, count>>

\* one connection was opened on "a" by open; the tree holds any entries
InitRows ==
  /\ tree \in Trees
  /\ InitQuery
  /\ mu = 0
  /\ dbs = [n \in Names |-> 1]
  /\ owns = [n \in Names |-> OpenedOwns]
  /\ nconn = 1
  /\ cf = [c \in Conns |-> IF c = 1 THEN 1 ELSE NoFile]
  /\ refs = [c \in Conns |-> IF c = 1 THEN InitRefs + 1 ELSE 0]
  /\ stop = [c \in Conns |-> {}]
  /\ nstmt = 0
  /\ files = [f \in Files |->
               IF f \in ExtHandles \cup {1}
               THEN [name |-> "a", open |-> TRUE]
               ELSE Unopened]
  /\ pc = [t \in Threads |-> "idle"]
  /\ arg = [t \in Threads |-> 0]
  /\ ret = [op |-> "open", out |-> "ok", closed |-> NoFile]
  /\ held = [c \in Conns |-> IF c = 1 THEN 1 ELSE 0]
  /\ over = [c \in Conns |-> FALSE]
  /\ fatal = FALSE
  /\ parsed = [t \in Threads |-> NoStmt]
  /\ stmtq = [s \in Stmts |-> NoStmt]

NextRows ==
  \/ \E t \in Threads, c \in Conns, stmt \in Statements : Query(t, c, stmt)
  \/ \E t \in Threads : RowsNext(t)
  \/ \E t \in Threads : RowsClose(t)

SpecRows == InitRows /\ [][NextRows]_vars

\* Prepare on that connection, of any of the statements
NextPrepare ==
  \/ \E t \in Threads, c \in Conns, stmt \in Statements :
       PrepareParse(t, c, stmt)
  \/ \E t \in Threads : PrepareStore(t)

SpecPrepare == InitRows /\ [][NextPrepare]_vars

\* a query on that connection while the connections of the file are opened,
\* adopted and closed
InitChurn ==
  /\ InitRows
  /\ tree = <<[x |-> IntV(1), y |-> StrV(1)], [x |-> IntV(2), y |-> StrV(2)]>>

NextChurn ==
  \/ \E t \in Threads, n \in Names : OpenLock(t, n)
  \/ \E t \in Threads : OpenBody(t)
  \/ \E t \in Threads, h \in ExtHandles : ConnectLock(t, h)
  \/ \E t \in Threads : ConnectBody(t)
  \/ \E t \in Threads, c \in Conns : CloseLock(t, c)
  \/ \E t \in Threads : CloseBody(t)
  \/ \E t \in Threads, c \in Conns, stmt \in Churned : Query(t, c, stmt)
  \/ \E t \in Threads : RowsNext(t)

SpecChurn == InitChurn /\ [][NextChurn]_vars

\* ======================================================================
\* Properties
\* ======================================================================
\* the step in which goroutine t returns from the method op it is inside
Returns(t, op) == pc[t] = op /\ pc'[t] = "idle"

NoOverClose == \A c \in Conns : ~over[c]
Registry == <<dbs, owns, nconn, cf, refs, stop, nstmt, files>>
DriverOpened(c) == cf[c] \in Conns
Adopted(c) == cf[c] \in ExtHandles

\* C1: for a connection entry created by open(name), with no prepared
\* statement and no Close call beyond the connections handed out: while n
\* connections were handed out and k < n Close calls returned nil, the
\* entry is in the registry, its file is open and refs = n - k; once the
\* n-th Close has returned nil the file is closed and the entry removed.
C1_RefsCountOpenConnections ==
  \A c \in Conns :
    (DriverOpened(c) /\ stop[c] = {} /\ ~over[c]) =>
      IF held[c] > 0
      THEN /\ dbs[ConnName(c)] = c
           /\ files[cf[c]].open
           /\ refs[c] = held[c]
      ELSE /\ dbs[ConnName(c)] # c
           /\ ~files[cf[c]].open
           /\ refs[c] = 0

\* the last Close on an entry made by open has just returned nil
C1_Witness ==
  \E c \in Conns :
    /\ DriverOpened(c) /\ stop[c] = {} /\ ~over[c]
    /\ held[c] = 0 /\ refs[c] = 0
    /\ dbs[ConnName(c)] = NoConn
    /\ ~files[cf[c]].open
    /\ ret = [op |-> "Close", out |-> "ok", closed |-> cf[c]]

\* C2: as long as no connection is closed more often than it was handed
\* out, the driver never calls Close on a file that was passed to connect:
\* every such file is open and no method has returned from closing it.
C2_AdoptedNeverClosed ==
  NoOverClose =>
    /\ \A h \in ExtHandles : files[h].open
    /\ ret.closed \notin ExtHandles

\* the last connection on an adopted entry was closed: the entry is gone,
\* the file is open
C2_Witness ==
  \E c \in Conns :
    /\ Adopted(c) /\ NoOverClose
    /\ held[c] = 0 /\ refs[c] = 0
    /\ dbs[ConnName(c)] = NoConn
    /\ files[cf[c]].open
    /\ ret = [op |-> "Close", out |-> "ok", closed |-> NoFile]

\* C3: a Close that finds refs = 1 and prepared statements in conn.stop
\* completes: it does not panic and the registry entry is removed.
C3_CloseCascadesToStatements ==
  [][\A t \in Threads :
       (Returns(t, "Close") /\ refs[arg[t]] = 1 /\ stop[arg[t]] # {}) =>
         /\ ret'.out # "panic"
         /\ dbs'[ConnName(arg[t])] # arg[t]]_vars

\* C4: a last Close that returns an error has removed the registry entry.
C4_FailedCloseRemovesEntry ==
  [][\A t \in Threads :
       (Returns(t, "Close") /\ refs[arg[t]] = 1 /\ ret'.out = "err") =>
         dbs'[ConnName(arg[t])] # arg[t]]_vars

\* C5: the stores into conn.stop are serialised by drv.mu: no two
\* goroutines, each using its own connection on the entry, are inside
\* accesses of the same conn.stop map of which one is a store.
C5_StopGuardedByLock ==
  \A c \in Conns : \A t \in Threads : \A u \in Threads \ {t} :
    (Cardinality(Inside(c)) <= held[c] /\ Writes(t, c)) =>
      ~Writes(u, c) /\ ~Reads(u, c)

\* C6: open(name) returning a connection: with an entry for name, refs of
\* that entry grows by 1 and nothing else of the registry changes (no file
\* is opened, owns is unchanged); with no entry, one file is opened and
\* the new entry is owned with refs 1.
C6_OpenRefsOrCreates ==
  [][\A t \in Threads :
       (Returns(t, "open") /\ ret'.out = "ok") =>
         LET n == arg[t] IN
         IF dbs[n] # NoConn
         THEN /\ refs' = [refs EXCEPT ![dbs[n]] = @ + 1]
              /\ UNCHANGED <<dbs, owns, nconn, cf, files>>
         ELSE LET c == dbs'[n] IN
              /\ c \in Conns /\ cf[c] = NoFile
              /\ owns'[n] = "true"
              /\ refs' = [refs EXCEPT ![c] = 1]
              /\ ~files[cf'[c]].open
              /\ files' = [files EXCEPT ![cf'[c]] =
                             [name |-> n, open |-> TRUE]]]_vars

\* open(name) has returned a second connection on a live entry
C6_Witness ==
  /\ ret = [op |-> "open", out |-> "ok", closed |-> NoFile]
  /\ dbs["a"] # NoConn
  /\ refs[dbs["a"]] = 2
  /\ owns["a"] = "true"

\* C7: a Close that finds refs > 1 returns nil having only decremented
\* refs: the entry, owns, the statements and the files are unchanged.
C7_SharedCloseOnlyDecrements ==
  [][\A t \in Threads :
       (Returns(t, "Close") /\ refs[arg[t]] > 1) =>
         /\ refs' = [refs EXCEPT ![arg[t]] = @ - 1]
         /\ UNCHANGED <<dbs, owns, nconn, cf, stop, nstmt, files>>
         /\ ret' = [op |-> "Close", out |-> "ok", closed |-> NoFile]]_vars

\* one of two connections on the only entry has been closed
C7_Witness ==
  /\ ret = [op |-> "Close", out |-> "ok", closed |-> NoFile]
  /\ nconn = 1
  /\ dbs["a"] = 1
  /\ refs[1] = 1 /\ held[1] = 1 /\ ~over[1]

\* C8: refs of every driverConn is >= 0 in every reachable state.
C8_RefsNonNegative == \A c \in Conns : refs[c] >= 0

\* Close was called again on a connection that was already closed
C8_Witness ==
  \E c \in Conns : over[c] /\ refs[c] = 0 /\ ret.op = "Close"

\* C9: Begin, Commit, Rollback and Exec end in a panic or an error and
\* change nothing of the registry, the refcounts, the statements, the lock.
TxOps == {"Begin", "Commit", "Rollback", "Exec"}
C9_TxNeverSucceeds ==
  [][(ret' # ret /\ ret'.op \in TxOps) =>
       /\ ret'.out \in {"panic", "err"}
       /\ ret'.closed = NoFile
       /\ UNCHANGED <<Registry, mu>>]_vars

\* Begin has been called on a live connection
C9_Witness ==
  /\ ret = [op |-> "Begin", out |-> "panic", closed |-> NoFile]
  /\ \E c \in Conns : refs[c] >= 1 /\ held[c] >= 1

\* ----------------------------------------------------------------------
\* the filter of the open cursor evaluates to true on entry i of the tree
Passes(i) ==
  LET ok == Eval(rows.filter, tree[i]) IN ok.t = "bool" /\ ok.v = 1

\* the entries Next returned as rows, in the order of the calls
Returned == SelectSeq(log, LAMBDA e : e.out = "row")

\* the entries on which a Next call ended with an error or a panic
Failed == {log[k].idx : k \in {j \in 1..Len(log) : log[j].out # "row"}}

Filtered == rows # NoRows /\ rows.filter.k # "nil"

\* the entries read so far that pass the filter and on which no call failed
RECURSIVE Selected(_)
Selected(n) ==
  IF n = 0 THEN <<>>
  ELSE IF Passes(n) /\ n \notin Failed THEN Append(Selected(n - 1), n)
  ELSE Selected(n - 1)

\* C10: for a query with a filter, the rows the Next calls have returned
\* are exactly the entries read so far on which the filter is true, in scan
\* order (the entries on which a call ended with an error set aside); no
\* entry on which the filter is false is returned; and a call that returns a
\* row leaves the scanner on that row, every rejected entry before it
\* consumed.
C10_FilteredRowsAreTheSubsequence ==
  Filtered =>
    /\ [k \in 1..Len(Returned) |-> Returned[k].idx] = Selected(scanner.pos)
    /\ \A k \in 1..Len(Returned) : Passes(Returned[k].idx)
    /\ (qret.op = "Next" /\ qret.out = "row") =>
         scanner.pos = Returned[Len(Returned)].idx

\* C10 witness: the scan ran to EOF without an error, and Next returned a
\* row after rejected entries and rejected the last entry
C10_Witness ==
  /\ Filtered
  /\ qret.op = "Next" /\ qret.out = "EOF"
  /\ Failed = {}
  /\ Len(tree) = MaxRows
  /\ Len(Returned) = 1
  /\ Returned[1].idx = 2


\* ----------------------------------------------------------------------
\* the scanner has no entry left to read
Exhausted == rows # NoRows /\ scanner.st = "open" /\ scanner.pos >= Len(tree)

\* the step is the return of a Next call
NextReturns == qret'.op = "Next" /\ <<qret, log, count, scanner>>' # <<qret, log, count, scanner>>

\* C11: once the scan is exhausted, a Next call returns EOF, neither an
\* error nor a row, and leaves the scanner where it is; this is so too when
\* the last entries of the tree were rejected by the filter.
C11_ExhaustedIsTerminal ==
  [][(Exhausted /\ NextReturns) =>
       /\ qret'.out = "EOF"
       /\ log' = log
       /\ scanner' = scanner]_vars

\* C11 witness: Next returned EOF twice on a filtered query whose last
\* entry the filter rejected, after it had returned a row
C11_Witness ==
  /\ Filtered
  /\ count.eof = 2
  /\ qret.op = "Next" /\ qret.out = "EOF"
  /\ Len(tree) >= 2
  /\ ~Passes(Len(tree))
  /\ Len(Returned) >= 1
  /\ Failed = {}


\* ----------------------------------------------------------------------
\* the value of the filter of the open cursor on entry i of the tree
FilterValue(i) == Eval(rows.filter, tree[i])

\* C12: when the filter evaluates to a value that is not a boolean on an
\* entry, the Next call that read the entry returns an error, and no row.
C12_NonBooleanFilterIsAnError ==
  Filtered =>
    \A k \in 1..Len(log) :
      FilterValue(log[k].idx).t \notin {"bool", "error"} => log[k].out = "err"

\* ----------------------------------------------------------------------
\* the WHERE clause of the statement names a column the tree does not have
UnknownFilterColumn(stmt) ==
  /\ stmt.kind = "Select"
  /\ stmt.where.k # "nil"
  /\ \E i \in 1..Len(CollectDeps(stmt.where)) :
       CollectDeps(stmt.where)[i] \notin BranchNames

\* C13: a statement whose filter references a column that is not in the
\* schema fails at Prepare: no prepared statement holds such a statement,
\* and no scanner is opened for it.
C13_UnknownColumnFailsPrepare ==
  /\ \A s \in 1..nstmt : ~UnknownFilterColumn(stmtq[s])
  /\ scanner = NoScanner


\* ----------------------------------------------------------------------
\* the column names an expression references, from left to right
RECURSIVE ColumnRefs(_)
ColumnRefs(e) ==
  CASE e.k = "ColName" -> <<e.name>>
    [] e.k \in {"ComparisonExpr", "BinaryExpr", "AndExpr", "OrExpr"} ->
         ColumnRefs(e.l) \o ColumnRefs(e.r)
    [] e.k \in {"ParenExpr", "NotExpr"} -> ColumnRefs(e.e)
    [] e.k = "ValTuple" ->
         IF e.es = <<>> THEN <<>>
         ELSE ColumnRefs(Head(e.es)) \o ColumnRefs(ValTuple(Tail(e.es)))
    [] OTHER -> <<>>

\* the references of a statement: those of the projection (every column of
\* the schema for SELECT *), then those of the filter
References(stmt) ==
  (IF stmt.expr.k = "StarExpr" THEN Branches ELSE ColumnRefs(stmt.expr))
    \o (IF stmt.where.k = "nil" THEN <<>> ELSE ColumnRefs(stmt.where))

\* rs[i] is the first reference of its name
First(rs, i) == \A j \in 1..(i - 1) : rs[j] # rs[i]

\* vs holds each referenced name once, in the order of the first references
InOrderOfFirstReference(vs, rs) ==
  /\ {vs[i] : i \in 1..Len(vs)} = {rs[i] : i \in 1..Len(rs)}
  /\ \A i, j \in 1..Len(vs) : i # j => vs[i] # vs[j]
  /\ \A i, j \in 1..Len(vs) : i < j =>
       \E a, b \in 1..Len(rs) :
         /\ a < b
         /\ First(rs, a) /\ rs[a] = vs[i]
         /\ First(rs, b) /\ rs[b] = vs[j]

\* C14: the columns the scanner is opened with are the names the projection
\* and the WHERE clause reference, each once, in the order of the first
\* reference, the projection before the filter, and no other name; for
\* SELECT * they are the columns of the schema, in schema order.
C14_ScanColumnsAreTheReferences ==
  scanner.st # "none" => InOrderOfFirstReference(scanner.vars, References(query))


\* ----------------------------------------------------------------------
\* the number of values of a projected value: the length of a tuple, 1 for
\* a scalar
Arity(vs) == IF vs.t = "[]interface{}" THEN Len(vs.v) ELSE 1

\* the Next call logged at k evaluated the projection, to a value
Projected(k) ==
  /\ log[k].out \in {"row", "panic"}
  /\ rows.filter.k # "nil" => Passes(log[k].idx)

\* C15: on every entry, the number of values the projection produces is the
\* number of columns Columns() reports, and Next writes no slot of dest
\* beyond them.
C15_ProjectionArityIsColumnCount ==
  rows # NoRows =>
    \A k \in 1..Len(log) :
      Projected(k) =>
        /\ Arity(Eval(rows.eval, tree[log[k].idx])) = Len(rows.cols)
        /\ log[k].out = "row"


\* ----------------------------------------------------------------------
\* what a scalar projection places in slot 0 for value v: the bytes of a
\* string, any other value itself
Direct(v) == IF v.t = "string" THEN BytesV(v.v) ELSE v

\* C16: SELECT * reports the columns of the schema in schema order, and on
\* each row returned slot i of dest holds the value of column i: a string as
\* its bytes, any other value itself, unwrapped.
C16_StarYieldsTheSchemaColumns ==
  (rows # NoRows /\ query.kind = "Select" /\ query.expr.k = "StarExpr") =>
    /\ rows.cols = Branches
    /\ \A k \in 1..Len(Returned) :
         /\ Len(Returned[k].dest) = Len(Branches)
         /\ \A j \in 1..Len(Branches) :
              Returned[k].dest[j] = Direct(tree[Returned[k].idx][Branches[j]])


\* ----------------------------------------------------------------------
\* C17: Query with a statement that parses and is not a SELECT returns an
\* error to the caller; no driverRows is made and no scanner is opened.
C17_NonSelectIsAnError ==
  (qret.op = "Query" /\ query.kind \notin {"Select", "ParseError"}) =>
    /\ qret.out = "err"
    /\ rows = NoRows
    /\ scanner = NoScanner

\* ----------------------------------------------------------------------
\* a goroutine is inside open, connect or driverConn.Close
RegistryMethods == {"open", "connect", "Close"}

\* C19: Query and Next never wait for the lock of the registry: a goroutine
\* that is in no call can make a Query on a usable connection, and a Next on
\* open rows, whoever holds the lock; and the goroutine that holds the lock
\* is inside open, connect or Close, not in an evaluation or a scan.
C19_QueriesTakeNoLock ==
  /\ \A t \in Threads :
       (~fatal /\ pc[t] = "idle") =>
         /\ \A c \in Conns :
              (Usable(c) /\ files[cf[c]].open /\ rows = NoRows
                 /\ scanner = NoScanner) =>
                ENABLED (\E stmt \in Churned : Query(t, c, stmt))
         /\ (rows # NoRows /\ scanner.st = "open") => ENABLED RowsNext(t)
  /\ mu # 0 => pc[mu] \in RegistryMethods

\* C19 witness: Next has returned a row and the rows are open while a
\* goroutine holds the lock, inside Close
C19_Witness ==
  /\ mu # 0 /\ pc[mu] = "Close"
  /\ qret.op = "Next" /\ qret.out = "row"
  /\ scanner.st = "open"

\* ----------------------------------------------------------------------
\* C20: whenever the lock is free, every connection in the registry has
\* refs >= 1: no connection with refs = 0 is reachable through drv.dbs, so
\* open and connect hand out no connection that was torn down.
C20_RegisteredHaveRefs ==
  mu = 0 => \A n \in Names : dbs[n] # NoConn => refs[dbs[n]] >= 1

\* C20 witness: a connection was torn down and the name opened again; the
\* registry holds the new connection
C20_Witness ==
  /\ mu = 0
  /\ nconn = 2
  /\ refs[1] = 0
  /\ \E n \in Names : dbs[n] = 2 /\ refs[2] >= 1
  /\ ret.op \in {"open", "connect"} /\ ret.out = "ok"


\* ----------------------------------------------------------------------
\* C21: a Close on a connection whose refs is already 0 closes no file,
\* neither one the driver opened nor an adopted one, also when the name was
\* opened again since; it removes no entry of the registry and changes no
\* refs.
C21_CloseOfTornDownIsNoOp ==
  [][\A t \in Threads :
       (Returns(t, "Close") /\ refs[arg[t]] = 0) =>
         /\ files' = files
         /\ dbs' = dbs
         /\ refs' = refs]_vars


\* ----------------------------------------------------------------------
\* C22: a Query that returns an error leaves no scanner open: when the
\* compilation of the projection or of the filter fails after the scanner
\* was opened, the scanner is closed before the error is returned.
C22_FailedQueryLeavesNoScanner ==
  (qret.op = "Query" /\ qret.out = "err") => scanner.st # "open"

\* ----------------------------------------------------------------------
\* C23: an open that fails to open the file returns an error and leaves the
\* registry as it was: no entry and no owns flag for the name, no refs
\* changed; the name has no entry, so the next open of it calls riofs.Open
\* again.
C23_FailedOpenChangesNothing ==
  [][\A t \in Threads :
       (Returns(t, "open") /\ ret'.out = "err") =>
         /\ UNCHANGED <<dbs, owns, refs, nconn, cf, files, stop>>
         /\ dbs'[arg[t]] = NoConn]_vars

\* C23 witness: an open has failed and the registry holds neither an entry
\* nor an owns flag
C23_Witness ==
  /\ ret.op = "open" /\ ret.out = "err"
  /\ \A n \in Names : dbs[n] = NoConn /\ owns[n] = "unset"
  /\ nconn = 0

====
